---- MODULE Spec2Model ----
(***************************************************************************)
(* Joy_over_UDP: a sender (sendJoy.py + joystick_udp.py) that turns the    *)
(* lines of `jstest --event` into JSON datagrams, and two receivers:       *)
(* receive_joy.py (decode and display) and win_receive_joy_vgamepad.py     *)
(* (decode and drive a virtual Xbox 360 gamepad through vgamepad).         *)
(*                                                                         *)
(* One behaviour of the model is one run of the sender, the network and    *)
(* one of the two receivers.                                               *)
(***************************************************************************)
EXTENDS Integers, Sequences, FiniteSets, TLC

\* Bounds of the model.
MaxDatagrams == 3      \* datagrams put on the network in one run
MaxInFlight == 2       \* datagrams waiting in the receiver's socket buffer

\* Program constants.
AXIS_MIN == -32767     \* initial value of the trigger axes 4 and 5
AXIS_OFFSET == 32767   \* added to a trigger's raw value
AXIS_SPAN == 65534     \* divisor of the trigger conversion
TRIGGER_SCALE == 255   \* multiplier of the trigger conversion
TYPE_BUTTON == 1
TYPE_AXIS == 2

(***************************************************************************)
(* JSON values.  Python keeps whatever json.loads returns, so a field may  *)
(* hold an integer or something else; the model has integers and one       *)
(* string.                                                                 *)
(***************************************************************************)
I(n) == [t |-> "int", i |-> n]
STR == [t |-> "str", i |-> 0]
IsInt(v) == v.t = "int"

Fields == <<"type", "time", "number", "value">>

(***************************************************************************)
(* Datagram payloads.  form "object" is UTF-8 JSON text of an object,      *)
(* given by its key/value pairs in text order; "array" is valid JSON that  *)
(* is not an object; "badjson" is UTF-8 text that is not JSON; "badutf8"   *)
(* is bytes that are not UTF-8.                                            *)
(***************************************************************************)
Obj(pairs) == [form |-> "object", pairs |-> pairs]
BadJson == [form |-> "badjson", pairs |-> <<>>]
BadUtf8 == [form |-> "badutf8", pairs |-> <<>>]
JsonArray == [form |-> "array", pairs |-> <<>>]

\* A line of jstest output matched by EVENT_PATTERN, as its four integers.
Line(ty, ti, nu, va) == [type |-> ty, time |-> ti, number |-> nu, value |-> va]

\* A send_event whose dict names the third field 'num'.
EncodeMisnamed(e) ==
    Obj(<< <<"type", I(e.type)>>, <<"time", I(e.time)>>,
           <<"num", I(e.number)>>, <<"value", I(e.value)>> >>)

\* JoystickUDP.send_event: the dict built from the four arguments, dumped
\* as JSON text in key order.
Encode(e) ==
    Obj(<< <<"type", I(e.type)>>, <<"time", I(e.time)>>,
           <<"number", I(e.number)>>, <<"value", I(e.value)>> >>)

\* dict.get(key, default) on the dict json.loads builds from the pairs: the
\* last pair with that key wins.
DictGet(pairs, key, default) ==
    LET idx == {i \in 1..Len(pairs) : pairs[i][1] = key}
    IN  IF idx = {} THEN default
        ELSE pairs[CHOOSE i \in idx : \A j \in idx : j <= i][2]

\* event.get('type', 0) ... event.get('value', 0)
ExtractFields(pairs) ==
    [type   |-> DictGet(pairs, "type", I(0)),
     time   |-> DictGet(pairs, "time", I(0)),
     number |-> DictGet(pairs, "number", I(0)),
     value  |-> DictGet(pairs, "value", I(0))]

\* json.loads(data.decode('utf-8')) followed by the four event.get calls:
\* the exception class raised, or "" and the extracted event.
NoEvent == [type |-> I(0), time |-> I(0), number |-> I(0), value |-> I(0)]

\* A decoder that subscripts the dict (event['type'], ...) and so raises
\* KeyError on a missing field.
DecodeStrict(d) ==
    CASE d.form = "badutf8" -> [exc |-> "Exception", event |-> NoEvent]
      [] d.form = "badjson" -> [exc |-> "JSONDecodeError", event |-> NoEvent]
      [] d.form = "array"   -> [exc |-> "Exception", event |-> NoEvent]
      [] \E f \in 1..Len(Fields) :
            \A i \in 1..Len(d.pairs) : d.pairs[i][1] # Fields[f]
                            -> [exc |-> "Exception", event |-> NoEvent]
      [] OTHER              -> [exc |-> "", event |-> ExtractFields(d.pairs)]

\* A decoder that swallows its errors and hands on a fallback event
\* (button 0, value 0) for a payload it cannot read.
DecodeFallback(d) ==
    IF d.form = "object"
    THEN [exc |-> "", event |-> ExtractFields(d.pairs)]
    ELSE [exc |-> "", event |-> [NoEvent EXCEPT !.type = I(1)]]

Decode(d) ==
    CASE d.form = "badutf8" -> [exc |-> "Exception", event |-> NoEvent]
      [] d.form = "badjson" -> [exc |-> "JSONDecodeError", event |-> NoEvent]
      [] d.form = "array"   -> [exc |-> "Exception", event |-> NoEvent]
      [] OTHER              -> [exc |-> "", event |-> ExtractFields(d.pairs)]

(***************************************************************************)
(* The virtual gamepad (vgamepad.VX360Gamepad) as the mapper drives it:    *)
(* a report that the setters overwrite and update() submits.               *)
(***************************************************************************)
Neutral == [buttons |-> {}, lx |-> 0, ly |-> 0, rx |-> 0, ry |-> 0,
            lt |-> 0, rt |-> 0]

\* One call on the gamepad.
Call(op, btn, x, y) == [op |-> op, btn |-> btn, x |-> x, y |-> y]
UpdateCall == Call("update", "", 0, 0)
ResetCall == Call("reset", "", 0, 0)

\* VirtualControllerMapper.__init__: self.axis_values
InitAxisValues ==
    [k \in {I(n) : n \in 0..7} |->
        IF k \in {I(4), I(5)} THEN I(AXIS_MIN) ELSE I(0)]

\* VirtualControllerMapper.__init__: self.button_map
ButtonTargets ==
    <<"A", "B", "X", "Y", "LEFT_SHOULDER", "RIGHT_SHOULDER", "BACK", "START",
      "LEFT_THUMB", "RIGHT_THUMB", "GUIDE", "DPAD_UP", "DPAD_DOWN",
      "DPAD_LEFT", "DPAD_RIGHT">>
InButtonMap(number) == IsInt(number) /\ number.i \in 0..(Len(ButtonTargets) - 1)
button_map(number) == ButtonTargets[number.i + 1]

\* Python's int() of a quotient: truncation toward zero.
TruncDiv(n, d) == IF n >= 0 THEN n \div d ELSE -((-n) \div d)

\* A conversion that rounds to the nearest integer instead of truncating.
trigger_value_rounded(value) ==
    TruncDiv(2 * (value + AXIS_OFFSET) * TRIGGER_SCALE + AXIS_SPAN, 2 * AXIS_SPAN)

\* int((value + 32767) / 65534 * 255).  The float expression is never
\* within rounding error of an integer it does not equal, so truncating
\* the exact quotient gives the same integer.
trigger_value(value) ==
    TruncDiv((value + AXIS_OFFSET) * TRIGGER_SCALE, AXIS_SPAN)

\* What a handler has done when it reaches gamepad.update(), returns or
\* raises: the new axis_values and report, the gamepad calls made, whether
\* it raised, and whether gamepad.update() is next.
Handled(av, rep, calls, raised, update) ==
    [axis_values |-> av, report |-> rep, calls |-> calls,
     raised |-> raised, update |-> update]

\* Stick arguments without the inversion of Y.
StickArgsUninverted(av, xaxis, yaxis) == <<av[I(xaxis)].i, av[I(yaxis)].i>>

\* The arguments of gamepad.left_joystick / right_joystick.
StickArgs(av, xaxis, yaxis) == <<av[I(xaxis)].i, -(av[I(yaxis)].i)>>

\* handle_axis_event: the stick branch for the axis pair (xaxis, yaxis).
\* -self.axis_values[yaxis] raises TypeError on a non-integer, and the
\* gamepad refuses a non-integer x_value; neither changes the report.
HandleStick(av, rep, op, xaxis, yaxis) ==
    IF ~IsInt(av[I(xaxis)]) \/ ~IsInt(av[I(yaxis)])
    THEN Handled(av, rep, <<>>, TRUE, FALSE)
    ELSE LET xy == StickArgs(av, xaxis, yaxis)
         IN  Handled(av,
                     IF op = "left_joystick"
                     THEN [rep EXCEPT !.lx = xy[1], !.ly = xy[2]]
                     ELSE [rep EXCEPT !.rx = xy[1], !.ry = xy[2]],
                     <<Call(op, "", xy[1], xy[2])>>, FALSE, TRUE)

\* handle_axis_event: a trigger branch.  value + 32767 raises TypeError on
\* a non-integer.
\* A trigger branch that only ever raises the level it passes on.
HandleTriggerPeak(av, rep, op, value) ==
    IF ~IsInt(value)
    THEN Handled(av, rep, <<>>, TRUE, FALSE)
    ELSE LET old == IF op = "left_trigger" THEN rep.lt ELSE rep.rt
             new == trigger_value(value.i)
             level == IF new > old THEN new ELSE old
         IN  Handled(av,
                     IF op = "left_trigger"
                     THEN [rep EXCEPT !.lt = level]
                     ELSE [rep EXCEPT !.rt = level],
                     <<Call(op, "", level, 0)>>, FALSE, TRUE)

HandleTrigger(av, rep, op, value) ==
    IF ~IsInt(value)
    THEN Handled(av, rep, <<>>, TRUE, FALSE)
    ELSE LET level == trigger_value(value.i)
         IN  Handled(av,
                     IF op = "left_trigger"
                     THEN [rep EXCEPT !.lt = level]
                     ELSE [rep EXCEPT !.rt = level],
                     <<Call(op, "", level, 0)>>, FALSE, TRUE)

\* An axis handler that returns early when the value repeats the stored
\* one, without touching the gamepad.
handle_axis_event_skip_unchanged(av, rep, number, value) ==
    IF number \notin DOMAIN av
    THEN Handled(av @@ (number :> value), rep, <<>>, FALSE, FALSE)
    ELSE IF av[number] = value
    THEN Handled(av, rep, <<>>, FALSE, FALSE)
    ELSE LET av2 == [av EXCEPT ![number] = value]
         IN  CASE number \in {I(0), I(1)} ->
                    HandleStick(av2, rep, "left_joystick", 0, 1)
               [] number \in {I(2), I(3)} ->
                    HandleStick(av2, rep, "right_joystick", 2, 3)
               [] number = I(4) -> HandleTrigger(av2, rep, "left_trigger", value)
               [] number = I(5) -> HandleTrigger(av2, rep, "right_trigger", value)
               [] OTHER -> Handled(av2, rep, <<>>, FALSE, TRUE)

\* An axis handler whose last branch is `else` instead of
\* `elif number == 5`: every other tracked axis drives the right trigger.
handle_axis_event_else(av, rep, number, value) ==
    IF number \notin DOMAIN av
    THEN Handled(av @@ (number :> value), rep, <<>>, FALSE, FALSE)
    ELSE LET av2 == [av EXCEPT ![number] = value]
         IN  CASE number \in {I(0), I(1)} ->
                    HandleStick(av2, rep, "left_joystick", 0, 1)
               [] number \in {I(2), I(3)} ->
                    HandleStick(av2, rep, "right_joystick", 2, 3)
               [] number = I(4) -> HandleTrigger(av2, rep, "left_trigger", value)
               [] OTHER -> HandleTrigger(av2, rep, "right_trigger", value)

\* VirtualControllerMapper.handle_axis_event, up to gamepad.update().
handle_axis_event(av, rep, number, value) ==
    IF number \notin DOMAIN av
    THEN Handled(av @@ (number :> value), rep, <<>>, FALSE, FALSE)
    ELSE LET av2 == [av EXCEPT ![number] = value]
         IN  CASE number \in {I(0), I(1)} ->
                    HandleStick(av2, rep, "left_joystick", 0, 1)
               [] number \in {I(2), I(3)} ->
                    HandleStick(av2, rep, "right_joystick", 2, 3)
               [] number = I(4) -> HandleTrigger(av2, rep, "left_trigger", value)
               [] number = I(5) -> HandleTrigger(av2, rep, "right_trigger", value)
               [] OTHER -> Handled(av2, rep, <<>>, FALSE, TRUE)

\* A button handler in which a press of a pressed button releases it.
handle_button_event_toggle(av, rep, number, value) ==
    IF ~InButtonMap(number)
    THEN Handled(av, rep, <<>>, FALSE, FALSE)
    ELSE LET button == button_map(number)
         IN  IF value = I(1) /\ button \notin rep.buttons
             THEN Handled(av, [rep EXCEPT !.buttons = @ \cup {button}],
                          <<Call("press_button", button, 0, 0)>>, FALSE, TRUE)
             ELSE Handled(av, [rep EXCEPT !.buttons = @ \ {button}],
                          <<Call("release_button", button, 0, 0)>>, FALSE, TRUE)

\* A button handler that calls gamepad.update() before it changes the
\* button, so the change waits for the next event's update.
handle_button_event_early_update(av, rep, number, value) ==
    IF ~InButtonMap(number)
    THEN Handled(av, rep, <<>>, FALSE, FALSE)
    ELSE LET button == button_map(number)
         IN  IF value = I(1)
             THEN Handled(av, [rep EXCEPT !.buttons = @ \cup {button}],
                          <<UpdateCall, Call("press_button", button, 0, 0)>>,
                          FALSE, FALSE)
             ELSE Handled(av, [rep EXCEPT !.buttons = @ \ {button}],
                          <<UpdateCall, Call("release_button", button, 0, 0)>>,
                          FALSE, FALSE)

\* VirtualControllerMapper.handle_button_event, up to gamepad.update().
handle_button_event(av, rep, number, value) ==
    IF ~InButtonMap(number)
    THEN Handled(av, rep, <<>>, FALSE, FALSE)
    ELSE LET button == button_map(number)
         IN  IF value = I(1)
             THEN Handled(av, [rep EXCEPT !.buttons = @ \cup {button}],
                          <<Call("press_button", button, 0, 0)>>, FALSE, TRUE)
             ELSE Handled(av, [rep EXCEPT !.buttons = @ \ {button}],
                          <<Call("release_button", button, 0, 0)>>, FALSE, TRUE)

\* A dispatch that discards an event without a timestamp (time 0).
DispatchTimedOnly(av, rep, ev) ==
    CASE ev.time = I(0)           -> Handled(av, rep, <<>>, FALSE, FALSE)
      [] ev.type = I(TYPE_AXIS)   -> handle_axis_event(av, rep, ev.number, ev.value)
      [] ev.type = I(TYPE_BUTTON) -> handle_button_event(av, rep, ev.number, ev.value)
      [] OTHER                    -> Handled(av, rep, <<>>, FALSE, FALSE)

\* main: the dispatch on event_type.
Dispatch(av, rep, ev) ==
    CASE ev.type = I(TYPE_AXIS)   -> handle_axis_event(av, rep, ev.number, ev.value)
      [] ev.type = I(TYPE_BUTTON) -> handle_button_event(av, rep, ev.number, ev.value)
      [] OTHER                    -> Handled(av, rep, <<>>, FALSE, FALSE)

\* VirtualControllerMapper.reset: gamepad.reset() then gamepad.update().
\* It does not touch self.axis_values.
reset == [report |-> Neutral, calls |-> <<ResetCall, UpdateCall>>]

\* A main whose `except KeyboardInterrupt` guards sock.recvfrom alone: an
\* interrupt raised while a datagram is processed skips the reset.
ExceptKeyboardInterruptUnguarded(rep, at) ==
    IF at \in {"process", "update"}
    THEN [report |-> rep, calls |-> <<>>]
    ELSE reset

\* main of win_receive_joy_vgamepad.py: what `except KeyboardInterrupt`
\* does, with the report `rep`, for an interrupt raised at position `at`
\* of the loop.
ExceptKeyboardInterrupt(rep, at) == reset

\* A loop that a datagram's error ends.
AfterInnerExceptLeaves == "done"

\* main: where control goes after an inner `except` clause (lines 212-217)
\* has handled an error of one datagram: back to the top of `while True`.
AfterInnerExcept == "recv"

(***************************************************************************)
(* Inputs of a run.  A pool is what the environment may produce in one     *)
(* run: the matched lines jstest prints for the sender, and the payloads   *)
(* other hosts may send to the receiver's port.                            *)
(***************************************************************************)
Pool(lines, foreign) == [lines |-> lines, foreign |-> foreign]

AxisObj(number, value) ==
    Obj(<< <<"type", I(TYPE_AXIS)>>, <<"time", I(9)>>,
           <<"number", I(number)>>, <<"value", value>> >>)

PoolButtons ==
    Pool({Line(1, 1, 0, 1), Line(1, 2, 0, 0), Line(1, 3, 0, 2),
          Line(1, 4, 0, -1), Line(1, 5, 14, 1), Line(1, 6, 20, 1)}, {})

PoolSticks ==
    Pool({Line(2, 1, 0, -5000), Line(2, 2, 1, 10000), Line(2, 3, 2, 7),
          Line(2, 4, 3, 32767), Line(2, 5, 0, 40000), Line(2, 6, 9, 123)}, {})

PoolTriggers ==
    Pool({Line(2, 1, 4, 40000), Line(2, 2, 4, -40000), Line(2, 3, 5, 32767),
          Line(2, 4, 4, 0), Line(2, 5, 5, -32767), Line(2, 6, 6, 55)}, {})

PoolMixed ==
    Pool({Line(1, 1, 1, 1), Line(2, 2, 1, 10000), Line(2, 3, 5, 40000),
          Line(3, 4, 0, 1), Line(2, 5, 9, 1), Line(1, 6, 20, 1)}, {})

PoolDecode ==
    Pool({Line(1, 1, 0, 1)},
         {BadUtf8, BadJson, JsonArray, Obj(<<>>),
          Obj(<< <<"type", I(2)>>, <<"number", I(1)>>, <<"value", I(10000)>> >>),
          Obj(<< <<"value", I(1)>>, <<"extra", I(9)>>, <<"type", I(1)>> >>)})

PoolTypes ==
    Pool({Line(2, 1, 1, 10000), Line(2, 2, 0, 5), Line(1, 3, 0, 1)},
         {AxisObj(0, STR), AxisObj(1, STR), AxisObj(4, STR)})

PoolLevels ==
    Pool({Line(2, 1, 4, 0), Line(2, 2, 4, 32766), Line(2, 3, 5, -129),
          Line(2, 4, 5, 16384), Line(2, 5, 4, -32766), Line(2, 6, 5, 32767)}, {})

\* Well-formed events on mapped indices with values in range, for the
\* runs over the unreliable network: a button pressed and released, the
\* two axes of a stick, a trigger at two levels, and a mix.  The third
\* event of each pool comes from another sender.
PoolInRangeButtons ==
    Pool({Line(1, 1, 0, 1), Line(1, 2, 0, 0)},
         {Obj(<< <<"type", I(TYPE_BUTTON)>>, <<"time", I(9)>>,
                 <<"number", I(1)>>, <<"value", I(1)>> >>)})

PoolInRangeSticks ==
    Pool({Line(2, 1, 0, 300), Line(2, 2, 1, -400)}, {AxisObj(0, I(-7))})

PoolInRangeTriggers ==
    Pool({Line(2, 1, 4, 1000), Line(2, 2, 4, -2000)}, {AxisObj(5, I(32767))})

PoolInRangeMixed ==
    Pool({Line(1, 1, 14, 1), Line(2, 2, 3, 32767)}, {AxisObj(5, I(-100))})

PoolsInRange == {PoolInRangeButtons, PoolInRangeSticks, PoolInRangeTriggers,
                 PoolInRangeMixed}

\* Axis events on indices the mapper does not track at start.
PoolSlots ==
    Pool({Line(2, 1, 8, 1), Line(2, 2, 9, -1), Line(2, 3, 10, 5),
          Line(2, 4, 11, 0), Line(2, 5, 8, 2), Line(2, 6, 7, 3)}, {})

Pools == {PoolButtons, PoolSticks, PoolTriggers, PoolMixed, PoolDecode, PoolTypes,
          PoolLevels, PoolSlots} \cup PoolsInRange

Programs == {"vgamepad", "plain"}

VARIABLES
    prog,         \* which receiver runs: win_receive_joy_vgamepad.py or receive_joy.py
    pool,         \* the inputs of this run
    spc,          \* sendJoy.py: "run" or "exit"
    sent,         \* the datagrams put on the network, in order
    net,          \* the datagrams sent and not yet received, in order
    pc,           \* the receiver's position in main
    nrecv,        \* how many datagrams recvfrom has returned
    data,         \* the datagram being processed
    delivered,    \* the datagrams recvfrom has returned, in order
    event,        \* the fields last extracted
    axis_values,  \* VirtualControllerMapper.axis_values
    report,       \* the gamepad's report
    log,          \* the calls made on the gamepad, each with its datagram's ordinal
    outcome,      \* how the processing of the last datagram ended
    stop          \* which outer `except` clause ended main, and where it was raised

vars == <<prog, pool, spc, sent, net, pc, nrecv, data, delivered, event,
          axis_values, report, log, outcome, stop>>

Running == [by |-> "", at |-> ""]

\* The calls `calls` as log entries of datagram k (0: not driven by a datagram).
Tagged(k, calls) == [j \in 1..Len(calls) |-> [k |-> k, call |-> calls[j]]]

Init ==
    /\ prog \in Programs
    /\ pool \in Pools
    /\ spc = "run"
    /\ sent = <<>>
    /\ net = <<>>
    /\ pc = "recv"
    /\ nrecv = 0
    /\ data = BadJson
    /\ delivered = <<>>
    /\ event = NoEvent
    /\ axis_values = InitAxisValues
    /\ report = Neutral
    /\ log = <<>>
    /\ outcome = "none"
    /\ stop = Running

receiver_vars == <<pc, nrecv, data, delivered, event, axis_values, report, log,
                   outcome, stop>>

\* The run is followed until the receiver exits.
CanSend == Len(sent) < MaxDatagrams /\ Len(net) < MaxInFlight /\ pc # "done"

\* sendJoy.py main: a matched line is converted and sent by send_event.
Send(l) ==
    /\ spc = "run"
    /\ CanSend
    /\ l \in pool.lines
    /\ net' = Append(net, Encode(l))
    /\ sent' = Append(sent, Encode(l))
    /\ UNCHANGED <<prog, pool, spc, receiver_vars>>

\* sendJoy.py main: socket.sendto raises; `except Exception` prints and
\* returns 1.
SendFail(l) ==
    /\ spc = "run"
    /\ CanSend
    /\ l \in pool.lines
    /\ spc' = "exit"
    /\ UNCHANGED <<prog, pool, sent, net, receiver_vars>>

\* Another host sends a payload to the receiver's port.
ForeignSend(d) ==
    /\ CanSend
    /\ d \in pool.foreign
    /\ net' = Append(net, d)
    /\ sent' = Append(sent, d)
    /\ UNCHANGED <<prog, pool, spc, receiver_vars>>

sender_vars == <<prog, pool, spc, sent>>

\* sock.recvfrom(1024) returns a datagram.
Recv ==
    /\ pc = "recv"
    /\ net # <<>>
    /\ data' = Head(net)
    /\ delivered' = Append(delivered, Head(net))
    /\ net' = Tail(net)
    /\ nrecv' = nrecv + 1
    /\ pc' = "process"
    /\ UNCHANGED <<sender_vars, event, axis_values, report, log, outcome, stop>>

\* sock.recvfrom raises socket.timeout (the vgamepad receiver sets a 1 s timeout).
Timeout ==
    /\ prog = "vgamepad"
    /\ pc = "recv"
    /\ pc' = "timedout"
    /\ UNCHANGED <<sender_vars, net, nrecv, data, delivered, event, axis_values, report,
                   log, outcome, stop>>

\* `except socket.timeout: continue`
Continue ==
    /\ pc = "timedout"
    /\ pc' = "recv"
    /\ UNCHANGED <<sender_vars, net, nrecv, data, delivered, event, axis_values, report,
                   log, outcome, stop>>

\* The second try block of the loop: decode, extract, dispatch, and the
\* handler up to gamepad.update(); the inner except clauses.
Process ==
    /\ pc = "process"
    /\ LET dec == Decode(data)
           h == Dispatch(axis_values, report, dec.event)
       IN  IF dec.exc # ""
           THEN /\ outcome' = IF dec.exc = "JSONDecodeError"
                              THEN "invalid_json" ELSE "error"
                /\ pc' = AfterInnerExcept
                /\ UNCHANGED <<event, axis_values, report, log>>
           ELSE /\ event' = dec.event
                /\ IF prog = "plain"
                   THEN /\ outcome' = "event"
                        /\ pc' = "recv"
                        /\ UNCHANGED <<axis_values, report, log>>
                   ELSE /\ axis_values' = h.axis_values
                        /\ report' = h.report
                        /\ log' = log \o Tagged(nrecv, h.calls)
                        /\ outcome' = CASE h.raised -> "error"
                                        [] h.update -> "handling"
                                        [] OTHER -> "event"
                        /\ pc' = CASE h.raised -> AfterInnerExcept
                                   [] h.update -> "update"
                                   [] OTHER -> "recv"
    /\ UNCHANGED <<sender_vars, net, nrecv, data, delivered, stop>>

\* gamepad.update() at the end of a handler; it may raise.
Update ==
    /\ pc = "update"
    /\ log' = log \o Tagged(nrecv, <<UpdateCall>>)
    /\ \E ok \in BOOLEAN :
          /\ outcome' = IF ok THEN "event" ELSE "error"
          /\ pc' = IF ok THEN "recv" ELSE AfterInnerExcept
    /\ UNCHANGED <<sender_vars, net, nrecv, data, delivered, event, axis_values,
                   report, stop>>

InLoop == pc \in {"recv", "timedout", "process", "update"}

\* Ctrl+C while main is in the loop: `except KeyboardInterrupt`, then
\* `finally: sock.close()`.
KeyboardInterrupt ==
    /\ InLoop
    /\ stop' = [by |-> "KeyboardInterrupt", at |-> pc]
    /\ pc' = "done"
    /\ IF prog = "vgamepad"
       THEN /\ report' = ExceptKeyboardInterrupt(report, pc).report
            /\ log' = log \o Tagged(0, ExceptKeyboardInterrupt(report, pc).calls)
       ELSE UNCHANGED <<report, log>>
    /\ UNCHANGED <<sender_vars, net, nrecv, data, delivered, event, axis_values,
                   outcome>>

\* sock.recvfrom raises an OSError other than a timeout: the outer
\* `except Exception` (which resets the controller in the vgamepad
\* receiver) returns 1.
RecvError ==
    /\ pc = "recv"
    /\ stop' = [by |-> "Exception", at |-> pc]
    /\ pc' = "done"
    /\ IF prog = "vgamepad"
       THEN /\ report' = reset.report
            /\ log' = log \o Tagged(0, reset.calls)
       ELSE UNCHANGED <<report, log>>
    /\ UNCHANGED <<sender_vars, net, nrecv, data, delivered, event, axis_values,
                   outcome>>

Next ==
    \/ \E l \in pool.lines : Send(l)
    \/ \E l \in pool.lines : SendFail(l)
    \/ \E d \in pool.foreign : ForeignSend(d)
    \/ Recv
    \/ Timeout
    \/ Continue
    \/ Process
    \/ Update
    \/ KeyboardInterrupt
    \/ RecvError

Spec == Init /\ [][Next]_vars

(***************************************************************************)
(* The same programs over a network that may lose, duplicate and reorder   *)
(* datagrams (the sockets are SOCK_DGRAM).                                 *)
(***************************************************************************)

\* The i-th datagram in flight is lost.
Lose(i) ==
    /\ pc # "done"
    /\ i \in 1..Len(net)
    /\ net' = SubSeq(net, 1, i - 1) \o SubSeq(net, i + 1, Len(net))
    /\ UNCHANGED <<sender_vars, receiver_vars>>

\* The i-th datagram in flight is duplicated; the copy arrives last unless
\* it is reordered.  The copies delivered or in flight are kept from
\* outnumbering the datagrams sent, so that a run delivers no more than
\* MaxDatagrams.
Duplicate(i) ==
    /\ pc # "done"
    /\ i \in 1..Len(net)
    /\ Len(net) < MaxInFlight
    /\ nrecv + Len(net) < Len(sent)
    /\ net' = Append(net, net[i])
    /\ UNCHANGED <<sender_vars, receiver_vars>>

\* The i-th datagram in flight is overtaken by the one behind it.
Reorder(i) ==
    /\ pc # "done"
    /\ i \in 1..(Len(net) - 1)
    /\ net[i] # net[i + 1]
    /\ net' = [net EXCEPT ![i] = net[i + 1], ![i + 1] = net[i]]
    /\ UNCHANGED <<sender_vars, receiver_vars>>

\* The steps of a run in which neither program ends.
NextLossy ==
    \/ \E l \in pool.lines : Send(l)
    \/ \E d \in pool.foreign : ForeignSend(d)
    \/ Recv
    \/ Timeout
    \/ Continue
    \/ Process
    \/ Update
    \/ \E i \in 1..MaxInFlight : Lose(i)
    \/ \E i \in 1..MaxInFlight : Duplicate(i)
    \/ \E i \in 1..MaxInFlight : Reorder(i)

\* The vgamepad receiver fed with in-range events.
InitLossy == Init /\ prog = "vgamepad" /\ pool \in PoolsInRange

SpecLossy == InitLossy /\ [][NextLossy]_vars

(***************************************************************************)
(* Properties.                                                             *)
(***************************************************************************)

\* A step of the receiver that processes the current datagram: Process or
\* Update (the steps that leave "process" or "update" without ending main).
ProcessingStep == pc \in {"process", "update"} /\ pc' # pc /\ stop' = stop

\* The Process step of the vgamepad receiver on a datagram that decodes.
HandlerStep ==
    /\ prog = "vgamepad"
    /\ pc = "process" /\ pc' # pc /\ stop' = stop
    /\ Decode(data).exc = ""

\* The entries of the log that datagram k caused.
CallsOf(k) == SelectSeq(log, LAMBDA e : e.k = k)

\* Datagram k has been processed to its end.
Processed(k) ==
    \/ nrecv > k
    \/ /\ nrecv = k
       /\ \/ pc \in {"recv", "timedout"}
          \/ pc = "done" /\ stop.at \in {"recv", "timedout"}

\* C1: in the vgamepad receiver, once KeyboardInterrupt has ended the loop,
\* wherever it was raised, main has exited and the last two calls on the
\* gamepad are reset() and update(), every call driven by a datagram comes
\* before them, and the report is neutral (no button held, sticks and
\* triggers at rest).
C1_InterruptResets ==
    (prog = "vgamepad" /\ stop.by = "KeyboardInterrupt") =>
        /\ pc = "done"
        /\ Len(log) >= 2
        /\ log[Len(log) - 1] = [k |-> 0, call |-> ResetCall]
        /\ log[Len(log)] = [k |-> 0, call |-> UpdateCall]
        /\ \A i \in 1..(Len(log) - 2) : log[i].k > 0
        /\ report = Neutral

\* C1 witness: the interrupt arrived between press_button and update, with
\* the button held in the report until the reset.
C1_Witness ==
    /\ prog = "vgamepad"
    /\ stop = [by |-> "KeyboardInterrupt", at |-> "update"]
    /\ Len(log) >= 3
    /\ log[Len(log) - 2].call.op = "press_button"
    /\ report = Neutral

\* C2: a step that processes a datagram never ends the loop: whatever the
\* datagram (not UTF-8, not JSON, not an object, an event whose handler or
\* gamepad call raises), the receiver goes on to update() or back to
\* recvfrom, and main has not stopped.
C2_ErrorsDoNotEndLoop ==
    [][ProcessingStep => (pc' \in {"recv", "update"} /\ stop' = Running)]_vars

\* C2 witness: the first datagram failed to decode, the loop is back at
\* recvfrom after the second one, a valid press, reached the gamepad.
C2_Witness ==
    /\ prog = "vgamepad"
    /\ nrecv = 2
    /\ sent[1] = BadUtf8
    /\ pc = "recv"
    /\ outcome = "event"
    /\ CallsOf(2) = Tagged(2, <<Call("press_button", "A", 0, 0), UpdateCall>>)

\* The event the handler step is about to dispatch.
Ev == Decode(data).event

\* C3 (as claimed): a Button event on a mapped index 0..14 with any nonzero
\* integer value calls press_button for the mapped target and leaves it in
\* the report's pressed buttons; only value 0 calls release_button.
C3_NonzeroPresses ==
    [][(HandlerStep /\ Ev.type = I(TYPE_BUTTON) /\ InButtonMap(Ev.number)
                    /\ IsInt(Ev.value))
        => LET button == button_map(Ev.number)
           IN  IF Ev.value.i # 0
               THEN /\ button \in report'.buttons
                    /\ log' = log \o Tagged(nrecv, <<Call("press_button", button, 0, 0)>>)
               ELSE /\ button \notin report'.buttons
                    /\ log' = log \o Tagged(nrecv, <<Call("release_button", button, 0, 0)>>)
       ]_vars

\* The trigger level the handler step passes to the gamepad.
LevelPassed == log'[Len(log')].call.x

\* C4 (as claimed): for an Axis event on index 4 or 5 with any integer
\* value, the level passed to left_trigger/right_trigger lies in 0..255; a
\* value >= 32767 gives 255 and a value <= -32767 gives 0.
C4_TriggerLevelInRange ==
    [][(HandlerStep /\ Ev.type = I(TYPE_AXIS) /\ Ev.number \in {I(4), I(5)}
                    /\ IsInt(Ev.value))
        => /\ Len(log') = Len(log) + 1
           /\ log'[Len(log')].call.op =
                 (IF Ev.number = I(4) THEN "left_trigger" ELSE "right_trigger")
           /\ LevelPassed \in 0..TRIGGER_SCALE
           /\ (Ev.value.i >= AXIS_OFFSET => LevelPassed = TRIGGER_SCALE)
           /\ (Ev.value.i <= -AXIS_OFFSET => LevelPassed = 0)
       ]_vars

\* C5 (as claimed): once reset has run, after whatever events came before,
\* no button is pressed, the stored values of axes 0-3 and 6-7 are 0 and
\* those of axes 4 and 5 are -32767 as at construction, and reset() is
\* followed by exactly one update().
C5_ResetNeutral ==
    (prog = "vgamepad" /\ pc = "done") =>
        /\ report.buttons = {}
        /\ \A n \in 0..7 : axis_values[I(n)] = InitAxisValues[I(n)]
        /\ Len(log) >= 2
        /\ log[Len(log) - 1].call = ResetCall
        /\ log[Len(log)].call = UpdateCall
        /\ \A i \in 1..(Len(log) - 2) : log[i].call # ResetCall

\* In-order delivery: the datagram being processed is the nrecv-th sent.
InOrder == (pc \in {"process", "update"}) => data = sent[nrecv]

IsButtonEvent(d, number, value) ==
    /\ Decode(d).exc = ""
    /\ Decode(d).event.type = I(TYPE_BUTTON)
    /\ Decode(d).event.number = I(number)
    /\ Decode(d).event.value = I(value)

\* C6: with in-order delivery the gamepad sees the effects in sending
\* order: the k-th datagram processed is the k-th sent, the calls of
\* datagram k all precede those of datagram k+1, update() is the last call
\* of its datagram, and a press of button 0 sent right before a release of
\* button 0 gives press_button(A), update, release_button(A), update.
C6_OrderPreserved ==
    prog = "vgamepad" =>
        /\ InOrder
        /\ \A i \in 1..Len(log) : \A j \in 1..Len(log) :
              (i < j /\ log[j].k > 0) =>
                  /\ log[i].k > 0
                  /\ log[i].k <= log[j].k
                  /\ (log[i].k = log[j].k => log[i].call # UpdateCall)
        /\ \A k \in 1..(Len(sent) - 1) :
              (Processed(k + 1) /\ IsButtonEvent(sent[k], 0, 1)
                                /\ IsButtonEvent(sent[k + 1], 0, 0))
              => CallsOf(k) \o CallsOf(k + 1) =
                    Tagged(k, <<Call("press_button", "A", 0, 0), UpdateCall>>)
                    \o Tagged(k + 1, <<Call("release_button", "A", 0, 0), UpdateCall>>)

\* C6 witness: press then release of button 0 were sent and processed.
C6_Witness ==
    /\ prog = "vgamepad"
    /\ nrecv = 2 /\ pc = "recv"
    /\ IsButtonEvent(sent[1], 0, 1) /\ IsButtonEvent(sent[2], 0, 0)
    /\ Len(log) = 4
    /\ log[1].call.op = "press_button" /\ log[3].call.op = "release_button"

\* The stored value of axis n once the handler step has stored Ev.value.
Stored(n) == IF Ev.number = I(n) THEN Ev.value ELSE axis_values[I(n)]

\* The handler step for an Axis event on axis xaxis or yaxis, the stored
\* values of both being integers.
StickStep(xaxis, yaxis) ==
    /\ HandlerStep
    /\ Ev.type = I(TYPE_AXIS)
    /\ Ev.number \in {I(xaxis), I(yaxis)}
    /\ IsInt(Stored(xaxis)) /\ IsInt(Stored(yaxis))

\* C7: after any sequence of events, an Axis event on index 0 or 1 calls
\* left_joystick with (last stored value of axis 0, minus the last stored
\* value of axis 1), and one on index 2 or 3 calls right_joystick with
\* (last value of axis 2, minus the last value of axis 3); the report holds
\* that pair.  The values are integers, as a negation requires.
C7_SticksInvertY ==
    [][/\ StickStep(0, 1) =>
             /\ log' = log \o Tagged(nrecv,
                   <<Call("left_joystick", "", Stored(0).i, 0 - Stored(1).i)>>)
             /\ report'.lx = Stored(0).i /\ report'.ly = 0 - Stored(1).i
             /\ axis_values'[I(0)] = Stored(0) /\ axis_values'[I(1)] = Stored(1)
       /\ StickStep(2, 3) =>
             /\ log' = log \o Tagged(nrecv,
                   <<Call("right_joystick", "", Stored(2).i, 0 - Stored(3).i)>>)
             /\ report'.rx = Stored(2).i /\ report'.ry = 0 - Stored(3).i
             /\ axis_values'[I(2)] = Stored(2) /\ axis_values'[I(3)] = Stored(3)
      ]_vars

\* C7 witness: axis 0 received -5000, then axis 1 received 10000: the left
\* stick is (-5000, -10000).
C7_Witness ==
    /\ prog = "vgamepad"
    /\ nrecv = 2 /\ pc = "update"
    /\ event.number = I(1) /\ event.value = I(10000)
    /\ log[Len(log)].call = Call("left_joystick", "", -5000, -10000)
    /\ report.lx = -5000 /\ report.ly = -10000

\* C8: a Button event on a mapped index that repeats the event processed
\* right before it leaves the pressed buttons as the first one left them,
\* pressed for a press (value 1) and released for a release (value 0), and
\* raises no error.
C8_ButtonIdempotent ==
    [][(HandlerStep /\ Ev.type = I(TYPE_BUTTON) /\ InButtonMap(Ev.number)
                    /\ nrecv >= 2 /\ Ev = event)
        => /\ report'.buttons = report.buttons
           /\ outcome' # "error"
           /\ (Ev.value = I(1) => button_map(Ev.number) \in report'.buttons)
           /\ (Ev.value = I(0) => button_map(Ev.number) \notin report'.buttons)
       ]_vars

\* C8 witness: the same press of button 0 was sent and processed twice in
\* a row; A is pressed.
C8_Witness ==
    /\ prog = "vgamepad"
    /\ nrecv = 2 /\ pc = "recv"
    /\ sent[1] = sent[2] /\ IsButtonEvent(sent[2], 0, 1)
    /\ Len(log) = 4
    /\ report.buttons = {"A"}

\* The datagram in hand is an Axis event outside 0..7 or a Button event
\* outside the button table 0..14.
Unmapped(ev) ==
    /\ IsInt(ev.number)
    /\ \/ ev.type = I(TYPE_AXIS) /\ ev.number.i \notin 0..7
       \/ ev.type = I(TYPE_BUTTON) /\ ev.number.i \notin 0..14

FieldOrZero(pairs, key) ==
    IF \E i \in 1..Len(pairs) : pairs[i][1] = key
    THEN pairs[CHOOSE i \in 1..Len(pairs) : pairs[i][1] = key][2]
    ELSE I(0)

Expected(pairs) ==
    [type   |-> FieldOrZero(pairs, "type"),
     time   |-> FieldOrZero(pairs, "time"),
     number |-> FieldOrZero(pairs, "number"),
     value  |-> FieldOrZero(pairs, "value")]

\* C10: both receivers turn a JSON object lacking any of type, time,
\* number, value, with or without other keys, into the event that has 0
\* for each absent field, and go on to process that event: no decode
\* failure is reported, and the vgamepad receiver dispatches it as it
\* dispatches that event (the empty object as type 0: nothing to do).
C10_MissingFieldsDefaultZero ==
    [][(pc = "process" /\ pc' # pc /\ stop' = stop /\ data.form = "object")
        => /\ event' = Expected(data.pairs)
           /\ outcome' # "invalid_json"
           /\ prog = "plain" => outcome' = "event"
           /\ prog = "vgamepad" =>
                 LET h == Dispatch(axis_values, report, Expected(data.pairs))
                 IN  /\ axis_values' = h.axis_values
                     /\ report' = h.report
                     /\ log' = log \o Tagged(nrecv, h.calls)
                     /\ (outcome' = "error") = h.raised
           /\ data.pairs = <<>> =>
                 /\ event' = NoEvent
                 /\ outcome' = "event"
                 /\ UNCHANGED <<axis_values, report, log>>
       ]_vars

\* C10 witness: an object without "time" was processed as the Axis event
\* (time 0, number 1, value 10000): the left stick moved.
C10_Witness ==
    /\ prog = "vgamepad"
    /\ pc = "update"
    /\ \A i \in 1..Len(data.pairs) : data.pairs[i][1] # "time"
    /\ event = [type |-> I(TYPE_AXIS), time |-> I(0), number |-> I(1),
                value |-> I(10000)]
    /\ report.ly = -10000

\* C11: processing a payload that is not valid JSON text (not UTF-8, or
\* UTF-8 that does not parse) is reported and changes nothing: axis_values
\* and the report are as before, no call is made on the gamepad, and the
\* loop is back at recvfrom.
C11_MalformedInvisible ==
    [][(prog = "vgamepad" /\ pc = "process" /\ pc' # pc /\ stop' = stop
        /\ data.form \in {"badutf8", "badjson"})
        => /\ UNCHANGED <<axis_values, report, log, event>>
           /\ outcome' \in {"invalid_json", "error"}
           /\ pc' = "recv"
       ]_vars

\* C11 witness: with button A held, a payload that is not JSON has been
\* processed; A is still held and the log ends with the press's update.
C11_Witness ==
    /\ prog = "vgamepad"
    /\ nrecv = 2 /\ pc = "recv"
    /\ data = BadJson
    /\ outcome = "invalid_json"
    /\ report.buttons = {"A"}
    /\ log = Tagged(1, <<Call("press_button", "A", 0, 0), UpdateCall>>)

\* C12 (as claimed): a send that fails does not end the sender: sendJoy
\* keeps running and goes on to send the later events.
C12_SenderSurvivesFailure ==
    [][spc = "run" => spc' = "run"]_vars

InAxisRange(v) == v \in (-AXIS_OFFSET)..AXIS_OFFSET

\* C13 (as claimed): for an Axis event on index 0..3 with any integer
\* value, the x and y passed to left_joystick/right_joystick lie within
\* -32767..32767 (a value outside is clamped to the nearest bound), and the
\* event raises no error.
C13_StickArgsClamped ==
    [][(StickStep(0, 1) \/ StickStep(2, 3))
        => /\ Len(log') = Len(log) + 1
           /\ InAxisRange(log'[Len(log')].call.x)
           /\ InAxisRange(log'[Len(log')].call.y)
           /\ outcome' # "error"
       ]_vars

\* The handler step for an Axis event on a trigger with a raw value in
\* -32767..32767.
TriggerStep ==
    /\ HandlerStep
    /\ Ev.type = I(TYPE_AXIS) /\ Ev.number \in {I(4), I(5)}
    /\ IsInt(Ev.value) /\ InAxisRange(Ev.value.i)

\* (raw + 32767) * 255, the numerator of the exact level over 65534.
Scaled(raw) == (raw + AXIS_OFFSET) * TRIGGER_SCALE

\* C14 (as claimed): for a raw trigger value in -32767..32767 the level
\* passed to the gamepad is (raw + 32767) / 65534 * 255 rounded to the
\* nearest integer: raw -32767 gives 0, raw 32767 gives 255, raw 0 gives 128.
C14_TriggerLevelRounded ==
    [][TriggerStep
        => /\ 2 * AXIS_SPAN * LevelPassed >= 2 * Scaled(Ev.value.i) - AXIS_SPAN
           /\ 2 * AXIS_SPAN * LevelPassed <= 2 * Scaled(Ev.value.i) + AXIS_SPAN
           /\ (Ev.value.i = 0 => LevelPassed = 128)
       ]_vars

\* C14 (amended): for a raw trigger value in -32767..32767 the level passed
\* to the gamepad is (raw + 32767) / 65534 * 255 truncated to an integer:
\* raw -32767 gives 0, raw 32767 gives 255, raw 0 gives 127.
C14_TriggerLevelTruncated ==
    [][TriggerStep
        => /\ log' = log \o Tagged(nrecv,
                 <<Call(IF Ev.number = I(4) THEN "left_trigger" ELSE "right_trigger",
                        "", LevelPassed, 0)>>)
           /\ AXIS_SPAN * LevelPassed <= Scaled(Ev.value.i)
           /\ AXIS_SPAN * (LevelPassed + 1) > Scaled(Ev.value.i)
           /\ (Ev.value.i = -AXIS_OFFSET => LevelPassed = 0)
           /\ (Ev.value.i = AXIS_OFFSET => LevelPassed = TRIGGER_SCALE)
           /\ (Ev.value.i = 0 => LevelPassed = 127)
           /\ (IF Ev.number = I(4) THEN report'.lt ELSE report'.rt) = LevelPassed
       ]_vars

\* C14 witness: raw 0 on axis 4 has reached the gamepad as level 127.
C14_Witness ==
    /\ prog = "vgamepad"
    /\ pc = "update"
    /\ event.type = I(TYPE_AXIS) /\ event.number = I(4) /\ event.value = I(0)
    /\ log[Len(log)].call = Call("left_trigger", "", 127, 0)
    /\ report.lt = 127

MappedEvent(d) ==
    /\ Decode(d).exc = ""
    /\ \/ /\ Decode(d).event.type = I(TYPE_AXIS)
          /\ Decode(d).event.number \in {I(n) : n \in 0..5}
       \/ /\ Decode(d).event.type = I(TYPE_BUTTON)
          /\ InButtonMap(Decode(d).event.number)

\* The gamepad call the handler makes for a mapped event.
SetterOf(ev) ==
    IF ev.type = I(TYPE_BUTTON)
    THEN (IF ev.value = I(1) THEN "press_button" ELSE "release_button")
    ELSE CASE ev.number \in {I(0), I(1)} -> "left_joystick"
           [] ev.number \in {I(2), I(3)} -> "right_joystick"
           [] ev.number = I(4) -> "left_trigger"
           [] OTHER -> "right_trigger"

\* Some datagram up to the k-th carries a value that is not an integer.
NonIntegerUpTo(k) ==
    \E j \in 1..k : Decode(sent[j]).exc = "" /\ ~IsInt(Decode(sent[j]).event.value)

\* C16: when the loop is back at recvfrom after a mapped Axis event (index
\* 0..5) or a mapped Button event (index 0..14), that datagram has caused
\* exactly two calls, its setter or press/release and then one update(),
\* and they precede every call of a later datagram; this holds whether or
\* not the event repeats the one before.  Only an event whose handler
\* raised (a non-integer value is involved) has caused no call at all.
C16_OneCommitPerEvent ==
    prog = "vgamepad" =>
        /\ \A k \in 1..nrecv :
              (Processed(k) /\ MappedEvent(sent[k])) =>
                  \/ /\ Len(CallsOf(k)) = 2
                     /\ CallsOf(k)[1].call.op = SetterOf(Decode(sent[k]).event)
                     /\ CallsOf(k)[2].call = UpdateCall
                  \/ /\ CallsOf(k) = <<>>
                     /\ NonIntegerUpTo(k)
        /\ \A i \in 1..Len(log) : \A j \in 1..Len(log) :
              (i < j /\ log[j].k > 0) => (log[i].k > 0 /\ log[i].k <= log[j].k)

\* C16 witness: the same Axis event on index 1 was processed twice in a
\* row; each time left_joystick was followed by one update().
C16_Witness ==
    /\ prog = "vgamepad"
    /\ nrecv = 2 /\ pc = "recv"
    /\ sent[1] = sent[2]
    /\ Decode(sent[1]).event.type = I(TYPE_AXIS)
    /\ Decode(sent[1]).event.number = I(1)
    /\ Len(log) = 4
    /\ log[1].call.op = "left_joystick" /\ log[2].call = UpdateCall
    /\ log[3].call = log[1].call /\ log[4].call = UpdateCall

\* C17: when the handler raises while processing a datagram (outcome
\* "error"), axis_values and the gamepad report are left as they were
\* before that datagram.
C17_FailureIsolated ==
    [][(HandlerStep /\ outcome' = "error")
          => (axis_values' = axis_values /\ report' = report)]_vars

\* C18: the receive loop ends only on the cancellation signal: whenever
\* main has left the loop, it was KeyboardInterrupt that ended it.
C18_OnlyInterruptEndsLoop ==
    pc = "done" => stop.by = "KeyboardInterrupt"

\* The events of the datagrams of seq.
EventsOf(seq) ==
    SubSeq([i \in 1..Len(seq) |-> Decode(seq[i]).event], 1, Len(seq))

\* Every datagram of seq is a well-formed Button event on a mapped index
\* with value 0 or 1, or an Axis event on index 0..5 with a value in
\* -32767..32767.
InRange(seq) ==
    \A i \in 1..Len(seq) :
        LET ev == Decode(seq[i]).event
        IN  /\ Decode(seq[i]).exc = ""
            /\ IsInt(ev.value)
            /\ \/ /\ ev.type = I(TYPE_BUTTON)
                  /\ InButtonMap(ev.number)
                  /\ ev.value.i \in {0, 1}
               \/ /\ ev.type = I(TYPE_AXIS)
                  /\ ev.number \in {I(n) : n \in 0..5}
                  /\ InAxisRange(ev.value.i)

\* The i-th of the events evs is the last one for its button or axis index.
IsLast(evs, i) ==
    \A j \in (i + 1)..Len(evs) :
        evs[j].type # evs[i].type \/ evs[j].number # evs[i].number

\* The value of the last event of axis n in evs, the axis' initial value
\* when there is none.
LastAxisValue(evs, n) ==
    LET S == {i \in 1..Len(evs) :
                 evs[i].type = I(TYPE_AXIS) /\ evs[i].number = I(n) /\ IsLast(evs, i)}
    IN  IF S = {} THEN InitAxisValues[I(n)].i
        ELSE evs[CHOOSE i \in S : TRUE].value.i

\* The report that depends only on the last event of every button and
\* axis index in evs.
LastWriterWins(evs) ==
    [buttons |-> {button_map(evs[i].number) : i \in
                     {i \in 1..Len(evs) :
                         /\ evs[i].type = I(TYPE_BUTTON)
                         /\ evs[i].value = I(1)
                         /\ IsLast(evs, i)}},
     lx |-> LastAxisValue(evs, 0), ly |-> -LastAxisValue(evs, 1),
     rx |-> LastAxisValue(evs, 2), ry |-> -LastAxisValue(evs, 3),
     lt |-> trigger_value(LastAxisValue(evs, 4)),
     rt |-> trigger_value(LastAxisValue(evs, 5))]

\* C19: over a network that loses, duplicates and reorders, whenever the
\* vgamepad receiver has processed every delivered datagram and all of
\* them were in-range events, the gamepad's report is the last-writer-wins
\* function of the delivered sequence: a button is pressed iff its last
\* delivered event was a press, each stick is (last x, negated last y),
\* each trigger is the conversion of its last value.  The report so
\* depends only on the last delivered event of every button and axis.
C19_LastWriterWins ==
    (/\ prog = "vgamepad"
     /\ stop = Running
     /\ pc \in {"recv", "timedout"}
     /\ InRange(delivered))
        => LET evs == EventsOf(delivered)
           IN  report = LastWriterWins(evs)

\* C19 witness: of three datagrams sent, the first two being left trigger
\* events of different values, the second was delivered before the first,
\* the first was delivered twice and the third was lost; the trigger shows
\* the first one's level.
C19_Witness ==
    /\ prog = "vgamepad" /\ pc = "recv" /\ stop = Running
    /\ Len(sent) = 3 /\ net = <<>>
    /\ delivered = <<sent[2], sent[1], sent[1]>>
    /\ sent[1] # sent[2]
    /\ Decode(sent[1]).event.number = I(4)
    /\ Decode(sent[2]).event.number = I(4)
    /\ report.lt = trigger_value(Decode(sent[1]).event.value.i)
    /\ report.lt # trigger_value(Decode(sent[2]).event.value.i)

\* C20: the number of keys of axis_values stays under a fixed bound however
\* many Axis events with distinct indices outside 0..7 arrive; in
\* particular it does not grow by one with every datagram of a run.
C20_AxisSlotsBounded ==
    Cardinality(DOMAIN axis_values) < Cardinality(DOMAIN InitAxisValues) + MaxDatagrams

\* The payload d without its time field, and with its time field set to t.
Untimed(d) ==
    [d EXCEPT !.pairs = SelectSeq(d.pairs, LAMBDA pr : pr[1] # "time")]
SetTime(d, t) ==
    IF d.form = "object"
    THEN [d EXCEPT !.pairs = Append(Untimed(d).pairs, <<"time", I(t)>>)]
    ELSE d

\* Sequences that differ from seq in the time fields only: all timestamps
\* missing, timestamps decreasing, all timestamps equal.
Retimings(seq) ==
    {[i \in 1..Len(seq) |-> Untimed(seq[i])],
     [i \in 1..Len(seq) |-> SetTime(seq[i], Len(seq) - i + 1)],
     [i \in 1..Len(seq) |-> SetTime(seq[i], 7)]}

\* The mapper's axis_values, the report and the calls on the gamepad after
\* the vgamepad receiver has processed the datagrams of seq from its start.
RECURSIVE RunMapper(_)
RunMapper(seq) ==
    IF seq = <<>>
    THEN [axis_values |-> InitAxisValues, report |-> Neutral, calls |-> <<>>]
    ELSE LET before == RunMapper(SubSeq(seq, 1, Len(seq) - 1))
             dec == Decode(seq[Len(seq)])
             h == Dispatch(before.axis_values, before.report, dec.event)
         IN  IF dec.exc # ""
             THEN before
             ELSE [axis_values |-> h.axis_values,
                   report |-> h.report,
                   calls |-> before.calls \o h.calls \o
                             (IF ~h.raised /\ h.update THEN <<UpdateCall>> ELSE <<>>)]

\* C21: whenever the vgamepad receiver has processed every delivered
\* datagram, its axis_values, the report and the sequence of calls on the
\* gamepad are those of a run over any sequence that differs from the
\* delivered one in the time fields only (timestamps missing, decreasing
\* or all equal); as this holds after every datagram, the two runs agree
\* after every step.
C21_TimeNeverUsed ==
    (/\ prog = "vgamepad"
     /\ stop = Running
     /\ pc \in {"recv", "timedout"})
        => \A twin \in Retimings(delivered) :
              LET run == RunMapper(twin)
              IN  /\ run.axis_values = axis_values
                  /\ run.report = report
                  /\ run.calls = [i \in 1..Len(log) |-> log[i].call]

\* C21 witness: a Button event with time 1 and then an Axis event without
\* a time field were processed; each made its call and its update().
C21_Witness ==
    /\ prog = "vgamepad" /\ pc = "recv" /\ stop = Running
    /\ delivered = <<Encode(Line(1, 1, 0, 1)),
                     Obj(<< <<"type", I(2)>>, <<"number", I(1)>>,
                            <<"value", I(10000)>> >>)>>
    /\ Len(log) = 4
    /\ log[1].call.op = "press_button" /\ log[3].call.op = "left_joystick"
    /\ \A twin \in Retimings(delivered) : twin # delivered

====
